---- MODULE Spec2Model ----
(***************************************************************************)
(* WenPlayer front end (src/src/main.ts): the mirrored playback state, the *)
(* handlers that issue commands to the native engine and reconcile its     *)
(* replies, the 1-second position clock, the file-open flow with its       *)
(* media-kind routing, and the renderer of the engine's video frames.      *)
(*                                                                         *)
(* Execution is one event loop: every action below is one handler turn,    *)
(* i.e. the code that runs between two awaits.  A handler that awaits an   *)
(* engine / picker / window call leaves a record in `inflight`; the turn   *)
(* that continues it removes the record.  Calls settle in any order.       *)
(*                                                                         *)
(* Numbers.  Times are kept in units of 1/BarWidth second, so that the     *)
(* time of a click on pixel x of a bar BarWidth pixels wide, x/BarWidth *  *)
(* duration, is an integer.  Percentages are kept multiplied by PctScale.  *)
(* Volumes are kept in hundredths (the slider's integer units).            *)
(***************************************************************************)
EXTENDS Integers, Sequences, FiniteSets, Bags, TLC

(* ---------------------------------------------------------------- bounds *)
\* width of the progress bar in pixels (rect.width of the click handler)
BarWidth == 8
\* number of calls that may be awaiting their completion at one time
MaxInFlight == 2

(* ------------------------------------------------------------- constants *)
\* initPlayerControls: duration = 180 (seconds)
Duration == 180
\* let volume = 0.8, in hundredths
InitialVolume == 80
\* (window as any).lastVolume || 0.8, in hundredths
DefaultVolume == 80
\* the range input's default min and max
SliderMin == 0
\* a canvas element's default backing store
DefaultCanvasWidth == 300
DefaultCanvasHeight == 150
SliderMax == 100
\* a range input given no value shows the middle of min..max
InitialSliderValue == 50

\* time units in one second
Second == BarWidth
\* a percentage p is kept as p * PctScale
PctScale == Duration * BarWidth
\* window.lastVolume before the first mute: undefined
Undefined == -1

(* --------------------------------------------------------------- strings *)
Digits == <<"0", "1", "2", "3", "4", "5", "6", "7", "8", "9">>

\* Number.prototype.toString of a non-negative integer
RECURSIVE NumToString(_)
NumToString(n) ==
  IF n < 10 THEN <<Digits[n + 1]>>
  ELSE NumToString(n \div 10) \o <<Digits[(n % 10) + 1]>>

\* String.prototype.padStart(2, '0')
PadStart2(s) == IF Len(s) < 2 THEN <<"0">> \o s ELSE s

\* formatTime of updateTimeDisplay, on a time t >= 0 in time units:
\* mins = floor(seconds / 60), secs = floor(seconds % 60)
formatTime(t) ==
  LET mins == t \div (60 * Second)
      secs == (t % (60 * Second)) \div Second
  IN  PadStart2(NumToString(mins)) \o <<":">> \o PadStart2(NumToString(secs))

(* ----------------------------------------------------------------- state *)
VARIABLES
  isPlaying,        \* let isPlaying
  currentTime,      \* let currentTime, in time units
  duration,         \* let duration, in time units
  volume,           \* let volume, in hundredths
  lastVolume,       \* window.lastVolume, in hundredths, or Undefined
  display,          \* style.display of the elements the script shows and hides
  ariaLabel,        \* aria-label of #play-pause-btn
  progressFill,     \* style.width of #progress-fill, a percentage * PctScale
  currentTimeText,  \* textContent of #current-time
  durationText,     \* textContent of #duration
  sliderValue,      \* value of #volume-slider
  fileNameText,     \* textContent of #file-name
  fileInfoHidden,   \* #file-info carries the class "hidden"
  mediaPlayerActive,\* #media-player carries the class "active"
  playerMode,       \* document.body carries the class "player-mode"
  maximized,        \* the window is maximized
  alert,            \* the alert box on screen, or "none"
  attached,         \* #video-canvas is in the document
  videoCanvas,      \* let videoCanvas / videoContext are bound
  canvasWidth,      \* width of the canvas backing store
  canvasHeight,     \* height of the canvas backing store
  canvasPixels,     \* the RGBA bytes of the backing store, <<>> when cleared
  inflight,         \* the calls awaiting their completion, a bag: they settle in any order
  last              \* the handler turn that ran last: what it was asked and told

playbackVars == <<isPlaying, currentTime, duration, volume, lastVolume>>
controlVars == <<display, ariaLabel, progressFill, currentTimeText,
                 durationText, sliderValue>>
labelVars == <<fileNameText, fileInfoHidden>>
pageVars == <<mediaPlayerActive, playerMode>>
canvasVars == <<attached, videoCanvas, canvasWidth, canvasHeight, canvasPixels>>
shellVars == <<labelVars, pageVars, maximized, alert, canvasVars>>
vars == <<isPlaying, currentTime, duration, volume, lastVolume, display,
          ariaLabel, progressFill, currentTimeText, durationText, sliderValue,
          fileNameText, fileInfoHidden, mediaPlayerActive, playerMode,
          maximized, alert, attached, videoCanvas, canvasWidth, canvasHeight,
          canvasPixels, inflight, last>>

\* the elements whose style.display the script assigns
Elements == {"play-icon", "pause-icon", "volume-high-icon", "volume-low-icon",
             "volume-mute-icon", "audio-icon", "video-icon", "video-canvas",
             "player-controls"}

Bit(b) == IF b THEN 1 ELSE 0

\* a call handed to the engine by handler `by` with request value `arg`
Call(cmd, by, arg) == [cmd |-> cmd, by |-> by, arg |-> arg]

\* the record of a handler turn: its name, the user's input (the pixel
\* clicked, the slider value, the path picked), the value it sent to the
\* callee or had sent, the callee's reply, and the value the field it is
\* about had when the turn began
Turn(name, input, req, reply, pre) ==
  [turn |-> name, input |-> input, req |-> req, reply |-> reply, pre |-> pre]

\* the bag of calls with one more call c, and with one call c fewer
Issue(calls, c) == calls (+) SetToBag({c})
Settle(calls, c) == calls (-) SetToBag({c})

\* a handler may start while fewer than MaxInFlight calls are awaited
Room == BagCardinality(inflight) < MaxInFlight

(* ---------------------------------------------------------------- inputs *)
\* pixels of the progress bar the user clicks on (e.clientX - rect.left)
ClickXs == {0, BarWidth \div 2, BarWidth - 1, BarWidth}
\* values the user drags the volume slider to
SliderInputs == {0, 35, 50, 100}

\* positions the engine may report for a seek to req: the request itself,
\* the request snapped back to a whole second, a position past the end
SeekReplies(req) == {req, (req \div Second) * Second, duration + Second}
\* levels the engine may report for a set_volume of req: the request
\* itself, the request quantised to tenths, a level above full volume
VolumeReplies(req) == {req, (req \div 10) * 10, 150}

(* ------------------------------------------------------------------ Init *)
\* the state when the DOMContentLoaded handler has returned
Init ==
  /\ isPlaying = FALSE
  /\ currentTime = 0
  /\ duration = Duration * Second
  /\ volume = InitialVolume
  /\ lastVolume = Undefined
  /\ display = [e \in Elements |-> ""]
  /\ ariaLabel = ""
  /\ progressFill = 0
  /\ currentTimeText = formatTime(0)
  /\ durationText = formatTime(Duration * Second)
  /\ sliderValue = InitialSliderValue
  /\ fileNameText = [prefix |-> "", name |-> <<>>]
  /\ fileInfoHidden = TRUE
  /\ mediaPlayerActive = FALSE
  /\ playerMode = FALSE
  /\ maximized = FALSE
  /\ alert = "none"
  /\ attached = FALSE
  /\ videoCanvas = FALSE
  /\ canvasWidth = DefaultCanvasWidth
  /\ canvasHeight = DefaultCanvasHeight
  /\ canvasPixels = <<>>
  /\ inflight = EmptyBag
  /\ last = Turn("DOMContentLoaded", 0, 0, 0, 0)

(* ------------------------------------------------------------ play/pause *)
\* the icon swap of togglePlayPause and of updatePlayPauseUI
PlayPauseDisplay(d, playing) ==
  [d EXCEPT !["play-icon"] = IF playing THEN "none" ELSE "block",
            !["pause-icon"] = IF playing THEN "block" ELSE "none"]

PlayPauseLabel(playing) == IF playing THEN "pause" ELSE "play"

\* updatePlayPauseUI()
updatePlayPauseUI(playing) ==
  /\ display' = PlayPauseDisplay(display, playing)
  /\ ariaLabel' = PlayPauseLabel(playing)

\* click on #play-pause-btn: togglePlayPause up to its await
TogglePlayPause ==
  /\ Room
  /\ inflight' = Issue(inflight, Call("toggle_playback", "play-pause-btn", 0))
  /\ last' = Turn("toggle", 0, 0, 0, Bit(isPlaying))
  /\ UNCHANGED shellVars
  /\ UNCHANGED <<playbackVars, controlVars>>

\* as ToggleResolved, had the success path toggled the local flag instead of
\* adopting the engine's answer
ToggleResolvedLocally(c, playing) ==
  /\ c.cmd = "toggle_playback"
  /\ isPlaying' = ~isPlaying
  /\ display' = PlayPauseDisplay(display, ~isPlaying)
  /\ ariaLabel' = PlayPauseLabel(~isPlaying)
  /\ inflight' = Settle(inflight, c)
  /\ last' = Turn("toggle_resolved", 0, 0, Bit(playing), Bit(isPlaying))
  /\ UNCHANGED shellVars
  /\ UNCHANGED <<currentTime, duration, volume, lastVolume, progressFill,
                 currentTimeText, durationText, sliderValue>>

\* invoke('toggle_playback') resolved with `playing`
ToggleResolved(c, playing) ==
  /\ c.cmd = "toggle_playback"
  /\ isPlaying' = playing
  /\ display' = PlayPauseDisplay(display, playing)
  /\ ariaLabel' = PlayPauseLabel(playing)
  /\ inflight' = Settle(inflight, c)
  /\ last' = Turn("toggle_resolved", 0, 0, Bit(playing), Bit(isPlaying))
  /\ UNCHANGED shellVars
  /\ UNCHANGED <<currentTime, duration, volume, lastVolume, progressFill,
                 currentTimeText, durationText, sliderValue>>

\* the completion handled in the turn just before: 1 a failed toggle, 2 a
\* successful toggle, 0 anything else
PrecedingToggle ==
  IF last.turn = "toggle_rejected" THEN 1
  ELSE IF last.turn = "toggle_resolved" THEN 2
  ELSE 0

\* as ToggleRejected, had a failure handled right after another failure
\* negated the value from before that earlier failure, the value both
\* toggles were issued at, instead of the current one
ToggleRejectedFromIssueValue(c) ==
  /\ c.cmd = "toggle_playback"
  /\ isPlaying' = IF last.turn = "toggle_rejected" THEN isPlaying ELSE ~isPlaying
  /\ updatePlayPauseUI(IF last.turn = "toggle_rejected"
                         THEN isPlaying ELSE ~isPlaying)
  /\ inflight' = Settle(inflight, c)
  /\ last' = Turn("toggle_rejected", PrecedingToggle, 0, 0, Bit(isPlaying))
  /\ UNCHANGED shellVars
  /\ UNCHANGED <<currentTime, duration, volume, lastVolume, progressFill,
                 currentTimeText, durationText, sliderValue>>

\* invoke('toggle_playback') rejected: the front-end fallback.  The turn's
\* record holds which completion was handled just before it.
ToggleRejected(c) ==
  /\ c.cmd = "toggle_playback"
  /\ isPlaying' = ~isPlaying
  /\ updatePlayPauseUI(~isPlaying)
  /\ inflight' = Settle(inflight, c)
  /\ last' = Turn("toggle_rejected", PrecedingToggle, 0, 0, Bit(isPlaying))
  /\ UNCHANGED shellVars
  /\ UNCHANGED <<currentTime, duration, volume, lastVolume, progressFill,
                 currentTimeText, durationText, sliderValue>>

(* ----------------------------------------------------------- progress bar *)
\* the percentage of a click on pixel x: (x / rect.width) * 100
ClickPercent(x) == (x * 100 * PctScale) \div BarWidth

\* the time of a percentage: (percent / 100) * duration
PercentTime(percent) == (percent * duration) \div (100 * PctScale)

\* the percentage of a time: (currentTime / duration) * 100
TimePercent(t) == (t * 100 * PctScale) \div duration

\* updateTimeDisplay(current, total)
updateTimeDisplay(current, total) ==
  /\ currentTimeText' = formatTime(current)
  /\ durationText' = formatTime(total)

\* as ProgressClick, had a new click abandoned the seeks still awaited
ProgressClickCancelsPending(x) ==
  /\ Room
  /\ progressFill' = ClickPercent(x)
  /\ inflight' = Issue([c \in {d \in BagToSet(inflight) : d.cmd # "seek_to"} |->
                          inflight[c]],
                       Call("seek_to", "progress-bar", PercentTime(ClickPercent(x))))
  /\ last' = Turn("seek", x, PercentTime(ClickPercent(x)), 0, currentTime)
  /\ UNCHANGED shellVars
  /\ UNCHANGED <<playbackVars, display, ariaLabel, currentTimeText,
                 durationText, sliderValue>>

\* click on #progress-bar at pixel x: the handler up to its await
ProgressClick(x) ==
  /\ Room
  /\ progressFill' = ClickPercent(x)
  /\ inflight' = Issue(inflight, Call("seek_to", "progress-bar", PercentTime(ClickPercent(x))))
  /\ last' = Turn("seek", x, PercentTime(ClickPercent(x)), 0, currentTime)
  /\ UNCHANGED shellVars
  /\ UNCHANGED <<playbackVars, display, ariaLabel, currentTimeText,
                 durationText, sliderValue>>

\* invoke('seek_to') resolved with seekedTime
SeekResolved(c, seekedTime) ==
  /\ c.cmd = "seek_to"
  /\ currentTime' = seekedTime
  /\ updateTimeDisplay(seekedTime, duration)
  /\ inflight' = Settle(inflight, c)
  /\ last' = Turn("seek_resolved", 0, c.arg, seekedTime, 0)
  /\ UNCHANGED shellVars
  /\ UNCHANGED <<isPlaying, duration, volume, lastVolume, display, ariaLabel,
                 progressFill, sliderValue>>

\* as SeekRejected, had the catch branch only logged the failure
SeekRejectedKeepsPosition(c) ==
  /\ c.cmd = "seek_to"
  /\ updateTimeDisplay(currentTime, duration)
  /\ inflight' = Settle(inflight, c)
  /\ last' = Turn("seek_rejected", 0, c.arg, 0, 0)
  /\ UNCHANGED shellVars
  /\ UNCHANGED <<isPlaying, currentTime, duration, volume, lastVolume, display,
                 ariaLabel, progressFill, sliderValue>>

\* invoke('seek_to') rejected: currentTime = newTime
SeekRejected(c) ==
  /\ c.cmd = "seek_to"
  /\ currentTime' = c.arg
  /\ updateTimeDisplay(c.arg, duration)
  /\ inflight' = Settle(inflight, c)
  /\ last' = Turn("seek_rejected", 0, c.arg, 0, 0)
  /\ UNCHANGED shellVars
  /\ UNCHANGED <<isPlaying, duration, volume, lastVolume, display, ariaLabel,
                 progressFill, sliderValue>>

(* ------------------------------------------------------------------ tick *)
\* as Tick, had the guard been currentTime <= duration
TickThroughEnd ==
  /\ IF isPlaying /\ currentTime <= duration
       THEN /\ currentTime' = currentTime + Second
            /\ progressFill' = TimePercent(currentTime + Second)
            /\ updateTimeDisplay(currentTime + Second, duration)
       ELSE UNCHANGED <<currentTime, progressFill, currentTimeText, durationText>>
  /\ last' = Turn("tick", 0, 0, 0, currentTime)
  /\ UNCHANGED shellVars
  /\ UNCHANGED <<isPlaying, duration, volume, lastVolume, display, ariaLabel,
                 sliderValue, inflight>>

\* the setInterval callback of initPlayerControls
Tick ==
  /\ IF isPlaying /\ currentTime < duration
       THEN /\ currentTime' = currentTime + Second
            /\ progressFill' = TimePercent(currentTime + Second)
            /\ updateTimeDisplay(currentTime + Second, duration)
       ELSE UNCHANGED <<currentTime, progressFill, currentTimeText, durationText>>
  /\ last' = Turn("tick", 0, 0, 0, currentTime)
  /\ UNCHANGED shellVars
  /\ UNCHANGED <<isPlaying, duration, volume, lastVolume, display, ariaLabel,
                 sliderValue, inflight>>

(* ---------------------------------------------------------------- volume *)
\* the icon chosen for a level: mute at 0, low below 0.5, high otherwise
VolumeIcon(v) ==
  IF v = 0 THEN "volume-mute-icon"
  ELSE IF v < 50 THEN "volume-low-icon"
  ELSE "volume-high-icon"

\* the three style.display assignments of the icon update
VolumeDisplay(d, v) ==
  [d EXCEPT !["volume-high-icon"] =
                IF VolumeIcon(v) = "volume-high-icon" THEN "block" ELSE "none",
            !["volume-low-icon"] =
                IF VolumeIcon(v) = "volume-low-icon" THEN "block" ELSE "none",
            !["volume-mute-icon"] =
                IF VolumeIcon(v) = "volume-mute-icon" THEN "block" ELSE "none"]

\* what a range input keeps of an assigned value: it is held within min..max
RangeValue(v) ==
  IF v < SliderMin THEN SliderMin ELSE IF v > SliderMax THEN SliderMax ELSE v

\* input on #volume-slider dragged to v: the handler up to its await;
\* newVolume = parseInt(target.value) / 100
SliderInput(v) ==
  /\ Room
  /\ sliderValue' = v
  /\ inflight' = Issue(inflight, Call("set_volume", "volume-slider", v))
  /\ last' = Turn("slider", v, v, 0, volume)
  /\ UNCHANGED shellVars
  /\ UNCHANGED <<playbackVars, display, ariaLabel, progressFill,
                 currentTimeText, durationText>>

\* invoke('set_volume') of the slider handler resolved with actualVolume
SliderResolved(c, actualVolume) ==
  /\ c.cmd = "set_volume"
  /\ c.by = "volume-slider"
  /\ volume' = actualVolume
  /\ display' = VolumeDisplay(display, actualVolume)
  /\ inflight' = Settle(inflight, c)
  /\ last' = Turn("slider_resolved", 0, c.arg, actualVolume, 0)
  /\ UNCHANGED shellVars
  /\ UNCHANGED <<isPlaying, currentTime, duration, lastVolume, ariaLabel,
                 progressFill, currentTimeText, durationText, sliderValue>>

\* invoke('set_volume') of the slider handler rejected: volume = newVolume
SliderRejected(c) ==
  /\ c.cmd = "set_volume"
  /\ c.by = "volume-slider"
  /\ volume' = c.arg
  /\ display' = VolumeDisplay(display, c.arg)
  /\ inflight' = Settle(inflight, c)
  /\ last' = Turn("slider_rejected", 0, c.arg, 0, 0)
  /\ UNCHANGED shellVars
  /\ UNCHANGED <<isPlaying, currentTime, duration, lastVolume, ariaLabel,
                 progressFill, currentTimeText, durationText, sliderValue>>

\* the level the mute button asks for: 0 when audible, otherwise
\* window.lastVolume || 0.8
MuteTarget(v, lv) ==
  IF v > 0 THEN 0
  ELSE IF lv # Undefined /\ lv # 0 THEN lv ELSE DefaultVolume

\* as MuteClick, had window.lastVolume been assigned on every click, the
\* muted level 0 included, before newVolume is read from it
MuteClickRemembersZero ==
  /\ Room
  /\ lastVolume' = volume
  /\ inflight' = Issue(inflight, Call("set_volume", "volume-btn", MuteTarget(volume, volume)))
  /\ last' = Turn("mute", 0, MuteTarget(volume, volume), 0, volume)
  /\ UNCHANGED shellVars
  /\ UNCHANGED <<isPlaying, currentTime, duration, volume, controlVars>>

\* click on #volume-btn: the handler up to its await
MuteClick ==
  /\ Room
  /\ lastVolume' = IF volume > 0 THEN volume ELSE lastVolume
  /\ inflight' = Issue(inflight, Call("set_volume", "volume-btn", MuteTarget(volume, lastVolume)))
  /\ last' = Turn("mute", 0, MuteTarget(volume, lastVolume), 0, volume)
  /\ UNCHANGED shellVars
  /\ UNCHANGED <<isPlaying, currentTime, duration, volume, controlVars>>

\* invoke('set_volume') of the mute handler resolved with actualVolume
MuteResolved(c, actualVolume) ==
  /\ c.cmd = "set_volume"
  /\ c.by = "volume-btn"
  /\ volume' = actualVolume
  /\ sliderValue' = RangeValue(actualVolume)
  /\ display' = VolumeDisplay(display, actualVolume)
  /\ inflight' = Settle(inflight, c)
  /\ last' = Turn("mute_resolved", 0, c.arg, actualVolume, 0)
  /\ UNCHANGED shellVars
  /\ UNCHANGED <<isPlaying, currentTime, duration, lastVolume, ariaLabel,
                 progressFill, currentTimeText, durationText>>

\* invoke('set_volume') of the mute handler rejected: volume = newVolume
MuteRejected(c) ==
  /\ c.cmd = "set_volume"
  /\ c.by = "volume-btn"
  /\ volume' = c.arg
  /\ sliderValue' = RangeValue(c.arg)
  /\ display' = VolumeDisplay(display, c.arg)
  /\ inflight' = Settle(inflight, c)
  /\ last' = Turn("mute_rejected", 0, c.arg, 0, 0)
  /\ UNCHANGED shellVars
  /\ UNCHANGED <<isPlaying, currentTime, duration, lastVolume, ariaLabel,
                 progressFill, currentTimeText, durationText>>

(* ------------------------------------------------------- previous / next *)
\* click on #prev-btn or #next-btn: the handler up to its await
TrackClick(cmd) ==
  /\ Room
  /\ inflight' = Issue(inflight, Call(cmd, "track-btn", 0))
  /\ last' = Turn(cmd, 0, 0, 0, 0)
  /\ UNCHANGED shellVars
  /\ UNCHANGED <<playbackVars, controlVars>>

\* invoke('previous_track') / invoke('next_track') resolved, or rejected
\* and logged: the handler has nothing left to do either way
TrackSettled(c, ok) ==
  /\ c.by = "track-btn"
  /\ inflight' = Settle(inflight, c)
  /\ last' = Turn(c.cmd \o (IF ok THEN "_resolved" ELSE "_rejected"), 0,
                  0, 0, 0)
  /\ UNCHANGED shellVars
  /\ UNCHANGED <<playbackVars, controlVars>>

(* ----------------------------------------------------------------- paths *)
UpperCase == <<"A", "B", "C", "D", "E", "F", "G", "H", "I", "J", "K", "L", "M",
               "N", "O", "P", "Q", "R", "S", "T", "U", "V", "W", "X", "Y", "Z">>
LowerCase == <<"a", "b", "c", "d", "e", "f", "g", "h", "i", "j", "k", "l", "m",
               "n", "o", "p", "q", "r", "s", "t", "u", "v", "w", "x", "y", "z">>

\* String.prototype.toLowerCase, a string being a sequence of characters
toLowerCase(s) ==
  [k \in 1..Len(s) |->
     IF \E j \in 1..26 : UpperCase[j] = s[k]
       THEN LowerCase[CHOOSE j \in 1..26 : UpperCase[j] = s[k]]
       ELSE s[k]]

\* s.split(seps).pop(): what follows the last separator of s, all of s when
\* it has none
SplitPop(s, seps) ==
  LET cuts == {k \in 1..Len(s) : s[k] \in seps}
      from == IF cuts = {} THEN 0 ELSE CHOOSE k \in cuts : \A j \in cuts : j <= k
  IN  SubSeq(s, from + 1, Len(s))

\* selected.split(/[/\\]/).pop() || selected
FileName(selected) ==
  IF SplitPop(selected, {"/", "\\"}) # <<>>
    THEN SplitPop(selected, {"/", "\\"})
    ELSE selected

\* filePath.split('.').pop()?.toLowerCase() || ''
Extension(filePath) == toLowerCase(SplitPop(filePath, {"."}))

audioExtensions ==
  { <<"m", "p", "3">>, <<"f", "l", "a", "c">>, <<"w", "a", "v">>,
    <<"a", "a", "c">>, <<"o", "g", "g">>, <<"m", "4", "a">>, <<"w", "m", "a">> }
videoExtensions ==
  { <<"m", "p", "4">>, <<"m", "k", "v">>, <<"a", "v", "i">>, <<"m", "o", "v">>,
    <<"w", "m", "v">>, <<"f", "l", "v">>, <<"w", "e", "b", "m">>,
    <<"m", "4", "v">> }

\* the branch showMediaIcon takes for a path
MediaKind(filePath) ==
  IF Extension(filePath) \in audioExtensions THEN "audio"
  ELSE IF Extension(filePath) \in videoExtensions THEN "video"
  ELSE "default"

\* the paths the file picker may return, by number; 0 is a cancelled dialog
PathTable ==
  << <<"/", "m", "/", "a", ".", "f", "l", "a", "c">>,
     <<"C", ":", "\\", "v", "\\", "b", ".", "M", "K", "V">>,
     <<"/", "d", ".", "x", "/", "m", "k", "v">>,
     <<"/", "m", "/", "c", ".", "t", "x", "t">> >>
Picks == 0..Len(PathTable)

\* layout sizes of the canvas (clientWidth, clientHeight) once it is shown
ClientSizes == { <<2, 1>>, <<3, 2>> }

(* ----------------------------------------------------------- file opening *)
\* as MediaDisplay, without the four assignments of 'none' that come first
MediaDisplayWithoutHiding(d, filePath, hasCanvas) ==
  LET kind == MediaKind(filePath)
  IN  [d EXCEPT
         !["audio-icon"] = IF kind = "video" THEN @ ELSE "block",
         !["video-icon"] = IF kind = "video" THEN "block" ELSE @,
         !["video-canvas"] = IF hasCanvas /\ kind = "video" THEN "block" ELSE @,
         !["player-controls"] = "flex"]

\* showMediaIcon(filePath): the display assignments
MediaDisplay(d, filePath, hasCanvas) ==
  LET kind == MediaKind(filePath)
  IN  [d EXCEPT
         !["audio-icon"] = IF kind = "video" THEN "none" ELSE "block",
         !["video-icon"] = IF kind = "video" THEN "block" ELSE "none",
         !["video-canvas"] = IF ~hasCanvas THEN @
                             ELSE IF kind = "video" THEN "block" ELSE "none",
         !["player-controls"] = "flex"]

\* showMediaIcon(filePath), the canvas having layout size <<w, h>>
showMediaIcon(filePath, size) ==
  /\ display' = MediaDisplay(display, filePath, attached)
  /\ IF MediaKind(filePath) = "video" /\ attached
       THEN /\ canvasWidth' = size[1]
            /\ canvasHeight' = size[2]
            /\ canvasPixels' = <<>>
       ELSE UNCHANGED <<canvasWidth, canvasHeight, canvasPixels>>
  /\ mediaPlayerActive' = TRUE
  /\ playerMode' = TRUE

\* path strings given to showMediaIcon as a function of any string, by
\* number: a bare name, plain audio and video names, an upper-case
\* extension, a dot in a directory only, an unlisted and a missing
\* extension, a leading dot, two dots, a name without a dot under a drive
ClassifyPaths ==
  << <<"m", "k", "v">>,
     <<"a", ".", "f", "l", "a", "c">>,
     <<"b", ".", "M", "P", "4">>,
     <<"/", "d", ".", "x", "/", "m", "k", "v">>,
     <<"c", ".", "t", "x", "t">>,
     <<"/", "m", "/", "n", "o", "e", "x", "t">>,
     <<".", "m", "k", "v">>,
     <<"a", ".", "b", ".", "w", "e", "b", "m">>,
     <<"C", ":", "\\", "v", "\\", "m", "o", "v">> >>

\* showMediaIcon(filePath) applied to path number n of ClassifyPaths
Classify(n, size) ==
  /\ showMediaIcon(ClassifyPaths[n], size)
  /\ last' = Turn("showMediaIcon", n, 0, 0, 0)
  /\ UNCHANGED <<playbackVars, ariaLabel, progressFill, currentTimeText,
                 durationText, sliderValue, labelVars, maximized, alert,
                 attached, videoCanvas, inflight>>

\* click on #main-open-btn or #open-file-btn: openFileDialog up to its
\* first await, the file picker
OpenFileClick ==
  /\ Room
  /\ inflight' = Issue(inflight, Call("open", "openFileDialog", 0))
  /\ last' = Turn("open", 0, 0, 0, 0)
  /\ UNCHANGED <<playbackVars, controlVars, shellVars>>

\* as PickerCancelled, had an empty selection been handled as a failure
PickerCancelledAsFailure(c) ==
  /\ c.cmd = "open"
  /\ alert' = "open_file_failed"
  /\ inflight' = Settle(inflight, c)
  /\ last' = Turn(c.by \o "_cancelled", 0, 0, 0, 0)
  /\ UNCHANGED <<playbackVars, controlVars, labelVars, pageVars, maximized,
                 canvasVars>>

\* the picker resolved with nothing selected
PickerCancelled(c) ==
  /\ c.cmd = "open"
  /\ inflight' = Settle(inflight, c)
  /\ last' = Turn(c.by \o "_cancelled", 0, 0, 0, 0)
  /\ UNCHANGED <<playbackVars, controlVars, shellVars>>

\* the picker of openFileDialog resolved with path number n: the label is
\* set and maximizeWindow() is awaited
FilePicked(c, n) ==
  /\ c = Call("open", "openFileDialog", 0)
  /\ n # 0
  /\ fileNameText' = [prefix |-> "file", name |-> FileName(PathTable[n])]
  /\ fileInfoHidden' = FALSE
  /\ inflight' = Issue(Settle(inflight, c), Call("toggleMaximize", "openFileDialog", n))
  /\ last' = Turn("file_picked", n, n, 0, 0)
  /\ UNCHANGED <<playbackVars, controlVars, pageVars, maximized, alert,
                 canvasVars>>

\* the picker, or maximizeWindow(), of openFileDialog rejected: the outer
\* catch raises the alert
OpenFileRejected(c) ==
  /\ c.by = "openFileDialog"
  /\ c.cmd \in {"open", "toggleMaximize"}
  /\ alert' = "open_file_failed"
  /\ inflight' = Settle(inflight, c)
  /\ last' = Turn(c.cmd \o "_rejected", 0, c.arg, 0, 0)
  /\ UNCHANGED <<playbackVars, controlVars, labelVars, pageVars, maximized,
                 canvasVars>>

\* currentWindow.toggleMaximize() of openFileDialog resolved: the window has
\* been toggled, and invoke('load_file') is awaited
OpenFileMaximized(c) ==
  /\ c.cmd = "toggleMaximize"
  /\ c.by = "openFileDialog"
  /\ maximized' = ~maximized
  /\ inflight' = Issue(Settle(inflight, c), Call("load_file", "openFileDialog", c.arg))
  /\ last' = Turn("toggleMaximize_resolved", 0, c.arg, 0, Bit(maximized))
  /\ UNCHANGED <<playbackVars, controlVars, labelVars, pageVars, alert,
                 canvasVars>>

\* as LoadSettled, had showMediaIcon(selected) been inside the try block
LoadSettledInsideTry(c, ok, size) ==
  /\ c.cmd = "load_file"
  /\ IF ok THEN showMediaIcon(PathTable[c.arg], size)
           ELSE UNCHANGED <<display, canvasWidth, canvasHeight, canvasPixels,
                            mediaPlayerActive, playerMode>>
  /\ inflight' = Settle(inflight, c)
  /\ last' = Turn(IF ok THEN "load_file_resolved" ELSE "load_file_rejected", 0,
                  c.arg, 0, 0)
  /\ UNCHANGED <<playbackVars, ariaLabel, progressFill, currentTimeText,
                 durationText, sliderValue, labelVars, maximized, alert,
                 attached, videoCanvas>>

\* invoke('load_file') resolved (ok), or rejected and logged: either way
\* showMediaIcon(selected) ends the handler
LoadSettled(c, ok, size) ==
  /\ c.cmd = "load_file"
  /\ showMediaIcon(PathTable[c.arg], size)
  /\ inflight' = Settle(inflight, c)
  /\ last' = Turn(IF ok THEN "load_file_resolved" ELSE "load_file_rejected", 0,
                  c.arg, 0, 0)
  /\ UNCHANGED <<playbackVars, ariaLabel, progressFill, currentTimeText,
                 durationText, sliderValue, labelVars, maximized, alert,
                 attached, videoCanvas>>

\* click on #open-folder-btn: openFolderDialog up to its await
OpenFolderClick ==
  /\ Room
  /\ inflight' = Issue(inflight, Call("open", "openFolderDialog", 0))
  /\ last' = Turn("open_folder", 0, 0, 0, 0)
  /\ UNCHANGED <<playbackVars, controlVars, shellVars>>

\* the picker of openFolderDialog resolved with path number n
FolderPicked(c, n) ==
  /\ c = Call("open", "openFolderDialog", 0)
  /\ n # 0
  /\ fileNameText' = [prefix |-> "folder", name |-> FileName(PathTable[n])]
  /\ fileInfoHidden' = FALSE
  /\ inflight' = Settle(inflight, c)
  /\ last' = Turn("folder_picked", n, 0, 0, 0)
  /\ UNCHANGED <<playbackVars, controlVars, pageVars, maximized, alert,
                 canvasVars>>

\* the picker of openFolderDialog rejected
OpenFolderRejected(c) ==
  /\ c = Call("open", "openFolderDialog", 0)
  /\ alert' = "open_folder_failed"
  /\ inflight' = Settle(inflight, c)
  /\ last' = Turn("open_folder_rejected", 0, 0, 0, 0)
  /\ UNCHANGED <<playbackVars, controlVars, labelVars, pageVars, maximized,
                 canvasVars>>

\* click on #maximize-btn: maximizeWindow up to its await
MaximizeClick ==
  /\ Room
  /\ inflight' = Issue(inflight, Call("toggleMaximize", "maximize-btn", 0))
  /\ last' = Turn("maximize", 0, 0, 0, Bit(maximized))
  /\ UNCHANGED <<playbackVars, controlVars, shellVars>>

\* currentWindow.toggleMaximize() of the button resolved (the window has been
\* toggled) or rejected (nothing catches it, nothing changes)
MaximizeSettled(c, ok) ==
  /\ c = Call("toggleMaximize", "maximize-btn", 0)
  /\ maximized' = IF ok THEN ~maximized ELSE maximized
  /\ inflight' = Settle(inflight, c)
  /\ last' = Turn(IF ok THEN "maximize_resolved" ELSE "maximize_rejected", 0,
                  0, 0, Bit(maximized))
  /\ UNCHANGED <<playbackVars, controlVars, labelVars, pageVars, alert,
                 canvasVars>>

\* the user closes the alert box
DismissAlert ==
  /\ alert # "none"
  /\ alert' = "none"
  /\ last' = Turn("alert_dismissed", 0, 0, 0, 0)
  /\ UNCHANGED <<playbackVars, controlVars, labelVars, pageVars, maximized,
                 canvasVars, inflight>>

(* ---------------------------------------------------------------- frames *)
\* as Uint8ClampedArray, had the array been built from the length alone
\* (new Uint8ClampedArray(data.length)): a zeroed buffer
Uint8ClampedArrayOfLength(data) == [k \in 1..Len(data) |-> 0]

\* new Uint8ClampedArray(data): every element held within 0..255
Uint8ClampedArray(data) ==
  [k \in 1..Len(data) |->
     IF data[k] < 0 THEN 0 ELSE IF data[k] > 255 THEN 255 ELSE data[k]]

\* the frames the engine may push: width * height * 4 RGBA values each
Frames ==
  { [width |-> 1, height |-> 1, data |-> <<255, 0, 0, 255>>, timestamp |-> 1],
    [width |-> 1, height |-> 1, data |-> <<0, 300, 0, 255>>, timestamp |-> 2],
    [width |-> 2, height |-> 1, data |-> <<0, 0, 255, 255, 9, 9, 9, 255>>,
     timestamp |-> 3] }

\* as renderVideoFrame, had width and height been assigned for every frame
renderVideoFrameResizing(frameData) ==
  LET bound == videoCanvas \/ attached
  IN  /\ videoCanvas' = bound
      /\ IF ~bound
           THEN /\ last' = Turn("frame_dropped", frameData.timestamp,
                                frameData.width, frameData.height, 1)
                /\ UNCHANGED <<canvasWidth, canvasHeight, canvasPixels>>
           ELSE /\ canvasWidth' = frameData.width
                /\ canvasHeight' = frameData.height
                /\ canvasPixels' = Uint8ClampedArray(frameData.data)
                /\ last' = Turn("frame_painted", frameData.timestamp,
                                frameData.width, frameData.height, 1)
      /\ UNCHANGED <<playbackVars, controlVars, labelVars, pageVars, maximized,
                     alert, attached, inflight>>

\* a 'video-frame' event: renderVideoFrame(frameData).  The turn's record
\* holds the frame's timestamp, width and height, and in `pre` whether the
\* turn ran its conditional statement: console.error for a dropped frame,
\* the assignment of width and height for a painted one.
renderVideoFrame(frameData) ==
  LET bound == videoCanvas \/ attached
  IN  /\ videoCanvas' = bound
      /\ IF ~bound
           THEN /\ last' = Turn("frame_dropped", frameData.timestamp,
                                frameData.width, frameData.height, 1)
                /\ UNCHANGED <<canvasWidth, canvasHeight, canvasPixels>>
           ELSE /\ canvasWidth' = frameData.width
                /\ canvasHeight' = frameData.height
                /\ canvasPixels' = Uint8ClampedArray(frameData.data)
                /\ last' = Turn("frame_painted", frameData.timestamp,
                                frameData.width, frameData.height,
                                Bit(canvasWidth # frameData.width
                                    \/ canvasHeight # frameData.height))
      /\ UNCHANGED <<playbackVars, controlVars, labelVars, pageVars, maximized,
                     alert, attached, inflight>>

\* the host page attaches #video-canvas
AttachCanvas ==
  /\ ~attached
  /\ attached' = TRUE
  /\ last' = Turn("canvas_attached", 0, 0, 0, 0)
  /\ UNCHANGED <<playbackVars, controlVars, labelVars, pageVars, maximized,
                 alert, videoCanvas, canvasWidth, canvasHeight, canvasPixels,
                 inflight>>

(* ------------------------------------------------------- specifications *)
\* While an alert box is open the page runs no handler: alert() returns
\* only when the box is closed.
Idle == alert = "none"

\* the completions of the transport controls' calls
TransportSettled(c) ==
  \/ \E playing \in BOOLEAN : ToggleResolved(c, playing)
  \/ ToggleRejected(c)
  \/ \E t \in SeekReplies(c.arg) : SeekResolved(c, t)
  \/ SeekRejected(c)

\* the completions of the volume controls' and the track buttons' calls
ControlsSettled(c) ==
  \/ \E v \in VolumeReplies(c.arg) : SliderResolved(c, v)
  \/ SliderRejected(c)
  \/ \E v \in VolumeReplies(c.arg) : MuteResolved(c, v)
  \/ MuteRejected(c)
  \/ \E ok \in BOOLEAN : TrackSettled(c, ok)

\* the completions of openFileDialog's calls
OpenFileSettled(c) ==
  \/ /\ c.by = "openFileDialog"
     /\ PickerCancelled(c)
  \/ \E n \in Picks : FilePicked(c, n)
  \/ OpenFileRejected(c)
  \/ OpenFileMaximized(c)
  \/ \E ok \in BOOLEAN, size \in ClientSizes : LoadSettled(c, ok, size)

\* the completions of openFolderDialog's and the maximize button's calls
ChromeSettled(c) ==
  \/ /\ c.by = "openFolderDialog"
     /\ PickerCancelled(c)
  \/ \E n \in Picks : FolderPicked(c, n)
  \/ OpenFolderRejected(c)
  \/ \E ok \in BOOLEAN : MaximizeSettled(c, ok)

\* play/pause, the progress bar and the position clock
NextTransport ==
  /\ Idle
  /\ \/ TogglePlayPause
     \/ \E x \in ClickXs : ProgressClick(x)
     \/ Tick
     \/ \E c \in BagToSet(inflight) : TransportSettled(c)

SpecTransport == Init /\ [][NextTransport]_vars

\* the volume slider, the mute button, previous / next
NextControls ==
  /\ Idle
  /\ \/ \E v \in SliderInputs : SliderInput(v)
     \/ MuteClick
     \/ \E cmd \in {"previous_track", "next_track"} : TrackClick(cmd)
     \/ \E c \in BagToSet(inflight) : ControlsSettled(c)

SpecControls == Init /\ [][NextControls]_vars

\* opening files and folders, the window
NextOpen ==
  \/ /\ Idle
     /\ \/ OpenFileClick
        \/ OpenFolderClick
        \/ MaximizeClick
        \/ AttachCanvas
        \/ \E c \in BagToSet(inflight) : OpenFileSettled(c)
        \/ \E c \in BagToSet(inflight) : ChromeSettled(c)
  \/ DismissAlert

SpecOpen == Init /\ [][NextOpen]_vars

\* a session: files are opened one after another while the user seeks
NextSession ==
  \/ /\ Idle
     /\ \/ OpenFileClick
        \/ \E x \in ClickXs : ProgressClick(x)
        \/ \E c \in BagToSet(inflight) : OpenFileSettled(c)
        \/ \E c \in BagToSet(inflight) :
              \/ \E t \in SeekReplies(c.arg) : SeekResolved(c, t)
              \/ SeekRejected(c)
  \/ DismissAlert

SpecSession == Init /\ [][NextSession]_vars

\* rapid input: the user clicks along the progress bar and drags the volume
\* slider while earlier commands are still awaited
NextRapid ==
  /\ Idle
  /\ \/ \E x \in ClickXs : ProgressClick(x)
     \/ \E v \in SliderInputs : SliderInput(v)
     \/ \E c \in BagToSet(inflight) :
           \/ \E t \in SeekReplies(c.arg) : SeekResolved(c, t)
           \/ SeekRejected(c)
           \/ \E v \in VolumeReplies(c.arg) : SliderResolved(c, v)
           \/ SliderRejected(c)

SpecRapid == Init /\ [][NextRapid]_vars

\* media-kind routing as a function of the path string, with the frame
\* stream that shares the canvas with it
NextClassify ==
  \/ \E n \in 1..Len(ClassifyPaths), size \in ClientSizes : Classify(n, size)
  \/ AttachCanvas
  \/ \E f \in Frames : renderVideoFrame(f)

SpecClassify == Init /\ [][NextClassify]_vars

\* the volume controls with an engine that sets the level it is asked for:
\* set_volume resolves with the requested level, or fails
NextEcho ==
  /\ Idle
  /\ \/ \E v \in SliderInputs : SliderInput(v)
     \/ MuteClick
     \/ \E c \in BagToSet(inflight) :
           \/ SliderResolved(c, c.arg)
           \/ SliderRejected(c)
           \/ MuteResolved(c, c.arg)
           \/ MuteRejected(c)

SpecEcho == Init /\ [][NextEcho]_vars

\* the frame stream onto the canvas of the opened file
NextFrames ==
  \/ /\ Idle
     /\ \/ \E f \in Frames : renderVideoFrame(f)
        \/ AttachCanvas
        \/ OpenFileClick
        \/ \E c \in BagToSet(inflight) : OpenFileSettled(c)
  \/ DismissAlert

SpecFrames == Init /\ [][NextFrames]_vars

(***************************************************************************)
(* The claims.  A claim about what a handler turn does is stated of the    *)
(* state the turn leaves, which `last` identifies.                         *)
(***************************************************************************)

\* C1: when the toggle_playback call succeeds, isPlaying is the boolean the
\* engine returned, whatever it was before; when the call fails, isPlaying
\* is the negation of the value it had.
C1_ToggleAdoptsEngine ==
  /\ last.turn = "toggle_resolved" => isPlaying = (last.reply = 1)
  /\ last.turn = "toggle_rejected" => isPlaying = (last.pre = 0)

\* C1's case: the engine answered with the value isPlaying already had, so
\* adopting the answer and negating locally differ.
C1_Witness ==
  /\ last.turn = "toggle_resolved"
  /\ last.reply = last.pre
  /\ isPlaying = (last.reply = 1)

\* C2: whatever the slider, the mute button and the engine's completions
\* do, the mirrored volume lies in [0.0, 1.0] (0..100 hundredths).
C2_VolumeInRange == 0 <= volume /\ volume <= 100

\* C3: whenever duration > 0, currentTime <= duration.
C3_PositionWithinDuration == duration > 0 => currentTime <= duration

C5_SliderShowsEngineLevel ==
  /\ last.turn = "slider" =>
       BagIn(Call("set_volume", "volume-slider", last.input), inflight)
  /\ last.turn = "slider_resolved" =>
       /\ sliderValue = RangeValue(last.reply)
       /\ display[VolumeIcon(RangeValue(last.reply))] = "block"

\* C6: a tick advances currentTime by exactly one second when isPlaying and
\* currentTime < duration, and leaves it unchanged otherwise; it issues no
\* engine call and changes none of isPlaying, duration, volume.
C6_TickAdvancesByOne ==
  [][last'.turn = "tick" =>
       /\ currentTime' = IF isPlaying /\ currentTime < duration
                           THEN currentTime + Second
                           ELSE currentTime
       /\ inflight' = inflight
       /\ isPlaying' = isPlaying
       /\ duration' = duration
       /\ volume' = volume]_vars

\* C6's case: playing, a tick has taken the position from 10 s to 11 s.
C6_Witness ==
  /\ last.turn = "tick"
  /\ isPlaying
  /\ last.pre = 10 * Second
  /\ currentTime = 11 * Second

\* C7: when the open of a selected path completes, whether load_file
\* succeeded or not, the playback state is as initPlayerControls sets it:
\* currentTime = 0 and duration reset.
C7_OpenResetsPlayback ==
  last.turn \in {"load_file_resolved", "load_file_rejected"} =>
    /\ currentTime = 0
    /\ duration = Duration * Second

\* what showMediaIcon leaves on screen for a path
Presented(filePath) ==
  /\ display["player-controls"] = "flex"
  /\ mediaPlayerActive
  /\ playerMode
  /\ IF MediaKind(filePath) = "video"
       THEN /\ display["video-icon"] = "block"
            /\ display["audio-icon"] = "none"
            /\ attached => display["video-canvas"] = "block"
       ELSE /\ display["audio-icon"] = "block"
            /\ display["video-icon"] = "none"
            /\ attached => display["video-canvas"] = "none"

\* C8: when load_file fails for a selected path, the open completes as it
\* does after a successful load: the file label is visible, and the
\* presentation of the path's media kind and the control strip are shown.
C8_DegradedOpen ==
  last.turn \in {"load_file_resolved", "load_file_rejected"} =>
    /\ ~fileInfoHidden
    /\ fileNameText.prefix # ""
    /\ Presented(PathTable[last.req])

\* C8's case: load_file has failed for a video path with the canvas attached,
\* and the canvas and the control strip are on screen.
C8_Witness ==
  /\ last.turn = "load_file_rejected"
  /\ MediaKind(PathTable[last.req]) = "video"
  /\ attached
  /\ display["video-canvas"] = "block"
  /\ display["player-controls"] = "flex"
  /\ ~fileInfoHidden

\* C9: a failed engine command raises an alert if and only if it is
\* load_file: after a failed toggle_playback, seek_to, set_volume,
\* previous_track or next_track no alert is open, after a failed load_file
\* one is.
C9_AlertOnlyForLoadFile ==
  /\ last.turn \in {"toggle_rejected", "seek_rejected", "slider_rejected",
                    "mute_rejected", "previous_track_rejected",
                    "next_track_rejected"} => alert = "none"
  /\ last.turn = "load_file_rejected" => alert # "none"

\* C10: at the end of a turn that changes the playback state, what is
\* displayed of the changed field is computed from the current state: the
\* play/pause icon from isPlaying, the time text and the fill width from
\* currentTime / duration, the slider position from volume.
C10_DisplayIsCurrent ==
  /\ last.turn \in {"toggle_resolved", "toggle_rejected"} =>
       /\ display = PlayPauseDisplay(display, isPlaying)
       /\ ariaLabel = PlayPauseLabel(isPlaying)
  /\ \/ last.turn \in {"seek_resolved", "seek_rejected"}
     \/ last.turn = "tick" /\ currentTime # last.pre
     => /\ currentTimeText = formatTime(currentTime)
        /\ durationText = formatTime(duration)
        /\ progressFill = TimePercent(currentTime)
  /\ last.turn \in {"slider_resolved", "slider_rejected", "mute_resolved",
                    "mute_rejected"} =>
       /\ sliderValue = RangeValue(volume)
       /\ display = VolumeDisplay(display, volume)

\* C11: a turn that issues toggle_playback, seek_to or set_volume and then
\* awaits leaves the playback state and everything displayed from it as they
\* were: while the engine has not answered, the play/pause icon, the time
\* text and the progress fill are those of before the command.
C11_PendingLeavesPriorState ==
  [][last'.turn \in {"toggle", "seek", "slider", "mute"} =>
       /\ UNCHANGED <<isPlaying, currentTime, duration, volume>>
       /\ UNCHANGED <<display, ariaLabel, currentTimeText, durationText>>
       /\ progressFill' = progressFill]_vars

\* C12: a second seek (or volume change) issued while one is awaited cancels
\* nothing, and each completion is applied when it arrives: after a
\* completion the mirrored value is the one that completion adopts, whichever
\* command was issued first, and the other command is still awaited.
C12_LastCompletionWins ==
  [][/\ last'.turn \in {"seek", "slider"} =>
          \A c \in BagToSet(inflight) :
             CopiesIn(c, inflight') >= CopiesIn(c, inflight)
     /\ last'.turn \in {"seek_resolved", "seek_rejected"} =>
          /\ currentTime' = IF last'.turn = "seek_resolved"
                              THEN last'.reply ELSE last'.req
          /\ inflight' = Settle(inflight,
                                Call("seek_to", "progress-bar", last'.req))
     /\ last'.turn \in {"slider_resolved", "slider_rejected"} =>
          /\ volume' = IF last'.turn = "slider_resolved"
                         THEN last'.reply ELSE last'.req
          /\ inflight' = Settle(inflight,
                                Call("set_volume", "volume-slider", last'.req))
    ]_vars

\* C12's case: two seeks overlapped and the one issued first completed last.
\* The fill shows the click issued most recently (pixel BarWidth - 1), the
\* completion that arrived last is that of the earlier click (the middle of
\* the bar), nothing is awaited any more, and currentTime is the earlier
\* click's position.
C12_Witness ==
  /\ last.turn = "seek_resolved"
  /\ last.req = PercentTime(ClickPercent(BarWidth \div 2))
  /\ progressFill = ClickPercent(BarWidth - 1)
  /\ inflight = EmptyBag
  /\ currentTime = last.reply
  /\ currentTime = last.req

\* C13: a painted frame assigns the backing store's width and height only
\* when they differ from the frame's; so of consecutive frames of the same
\* dimensions only the first can resize, and every later one assigns neither
\* width nor height.
C13_ResizeEconomy ==
  [][last'.turn = "frame_painted" =>
       /\ last'.pre = Bit(canvasWidth # last'.req \/ canvasHeight # last'.reply)
       /\ (/\ last.turn = "frame_painted"
           /\ last.req = last'.req
           /\ last.reply = last'.reply) => last'.pre = 0]_vars

\* C13's case: a 1 x 1 frame has been painted without a resize.  Only an
\* earlier 1 x 1 frame gives the backing store that size (the layout sizes
\* and the default 300 x 150 differ from it).
C13_Witness ==
  /\ last.turn = "frame_painted"
  /\ last.req = 1
  /\ last.reply = 1
  /\ last.pre = 0
  /\ canvasWidth = 1
  /\ canvasHeight = 1

\* the frame that carries timestamp ts
FrameAt(ts) == CHOOSE f \in Frames : f.timestamp = ts

\* C14: once a frame has been painted, the backing store has that frame's
\* width and height and holds that frame's pixels (for a frame of RGBA
\* bytes), whatever was painted before it and whether or not this frame
\* resized the surface; so painting the same frame again leaves its pixels.
C14_SurfaceShowsLatestFrame ==
  last.turn = "frame_painted" =>
    /\ canvasWidth = FrameAt(last.input).width
    /\ canvasHeight = FrameAt(last.input).height
    /\ (\A k \in 1..Len(FrameAt(last.input).data) :
          FrameAt(last.input).data[k] \in 0..255)
         => canvasPixels = FrameAt(last.input).data

\* C14's case: the red 1 x 1 frame has been painted onto a surface that
\* already was 1 x 1 (an earlier 1 x 1 frame: no resize), and the surface
\* holds the red pixel.
C14_Witness ==
  /\ last.turn = "frame_painted"
  /\ last.input = 1
  /\ last.pre = 0
  /\ canvasPixels = <<255, 0, 0, 255>>

\* C15: a frame that arrives while #video-canvas cannot be resolved is
\* dropped and changes nothing of the surface; the condition is reported for
\* the first such frame only, not again for the frame after it; and a frame
\* that arrives once the canvas is attached is painted.
C15_UnresolvedReportedOnce ==
  [][/\ last'.turn = "frame_dropped" =>
          /\ ~attached
          /\ UNCHANGED <<videoCanvas, canvasWidth, canvasHeight, canvasPixels>>
     /\ (last.turn = "frame_dropped" /\ last'.turn = "frame_dropped") =>
          last'.pre = 0
     /\ (attached /\ last'.turn \in {"frame_dropped", "frame_painted"}) =>
          /\ last'.turn = "frame_painted"
          /\ canvasPixels' = Uint8ClampedArray(FrameAt(last'.input).data)
    ]_vars

\* the extension a path has by C16's reading: what follows the last '.' of
\* the file name, lower-cased; none when the file name holds no '.'
NamedExtension(filePath) ==
  IF \E k \in 1..Len(FileName(filePath)) : FileName(filePath)[k] = "."
    THEN toLowerCase(SplitPop(FileName(filePath), {"."}))
    ELSE <<>>

\* C16: the two extension sets are disjoint, and every path string is
\* presented as one kind: Video when the file name's lower-cased extension is
\* a video extension, Audio otherwise, in particular when the file name has
\* no '.' at all (the bare name mkv, or a '.' only in a directory).
C16_ClassificationDefaultsToAudio ==
  /\ audioExtensions \cap videoExtensions = {}
  /\ last.turn = "showMediaIcon" =>
       IF NamedExtension(ClassifyPaths[last.input]) \in videoExtensions
         THEN display["video-icon"] = "block" /\ display["audio-icon"] = "none"
         ELSE display["audio-icon"] = "block" /\ display["video-icon"] = "none"

\* an element is shown by the style.display the script gave it
Visible(e) == display[e] \in {"block", "flex"}

\* C17 as stated: when an open completes, the control strip is visible and
\* exactly one of the audio icon and the canvas is: the canvas for a video
\* path, the audio icon for any other, whatever was opened before.
C17_ExactlyOneShown ==
  last.turn \in {"load_file_resolved", "load_file_rejected"} =>
    /\ Visible("player-controls")
    /\ Visible("audio-icon") # Visible("video-canvas")
    /\ Visible("video-canvas") = (MediaKind(PathTable[last.req]) = "video")

\* C17 amended: when an open completes, the control strip is visible; the
\* audio icon is visible exactly for a path that is not video, and the video
\* icon exactly for one that is; the canvas is visible exactly for a video
\* path opened with #video-canvas in the document, so that with the canvas in
\* the document exactly one of the audio icon and the canvas is visible, and
\* without it a video path shows neither of the two.
C17_OneShownWhenCanvasPresent ==
  last.turn \in {"load_file_resolved", "load_file_rejected"} =>
    /\ Visible("player-controls")
    /\ Visible("audio-icon") = (MediaKind(PathTable[last.req]) # "video")
    /\ Visible("video-icon") = (MediaKind(PathTable[last.req]) = "video")
    /\ Visible("video-canvas") =
         (attached /\ MediaKind(PathTable[last.req]) = "video")
    /\ attached => Visible("audio-icon") # Visible("video-canvas")

\* C17's case: an audio path has been opened after a video path (whose open
\* gave the backing store its layout width): the audio icon is shown, and
\* the canvas and the video icon of the earlier file are hidden.
C17_Witness ==
  /\ last.turn = "load_file_resolved"
  /\ MediaKind(PathTable[last.req]) = "audio"
  /\ canvasWidth # DefaultCanvasWidth
  /\ Visible("audio-icon")
  /\ display["video-canvas"] = "none"
  /\ display["video-icon"] = "none"

\* C18: only a painted frame changes the canvas backing store: a turn that
\* changes its width, its height or its pixels is a frame turn, and its
\* width and height change only to those of the frame being painted.
C18_OnlyRendererMutatesSurface ==
  [][(\/ canvasWidth' # canvasWidth
      \/ canvasHeight' # canvasHeight
      \/ canvasPixels' # canvasPixels) =>
        /\ last'.turn = "frame_painted"
        /\ canvasWidth' = last'.req
        /\ canvasHeight' = last'.reply]_vars

\* C19: when the file picker resolves with nothing selected, the turn only
\* ends the open: no call is issued (none to the engine, none to the
\* window), no alert is raised, and the window, the file label, the media
\* presentation, the canvas and the playback state stay as they were.
C19_CancelledPickIgnored ==
  [][last'.turn = "openFileDialog_cancelled" =>
       /\ inflight' = Settle(inflight, Call("open", "openFileDialog", 0))
       /\ alert' = "none"
       /\ UNCHANGED <<maximized, labelVars, pageVars, display>>
       /\ UNCHANGED <<playbackVars, controlVars, canvasVars>>]_vars

\* C19's case: a file is on screen in a window that an open maximized, a
\* second picker has been cancelled, and the first file's label and
\* presentation are still there.
C19_Witness ==
  /\ last.turn = "openFileDialog_cancelled"
  /\ inflight = EmptyBag
  /\ maximized
  /\ ~fileInfoHidden
  /\ fileNameText.prefix = "file"
  /\ Visible("player-controls")
  /\ alert = "none"

\* C20: when the window call of an open with a selected path has resolved,
\* the window is maximized, whether it was maximized before or not.
C20_WindowMaximizedAfterOpen ==
  last.turn = "toggleMaximize_resolved" => maximized

\* C21: when a load_file has settled and no call of any open is awaited any
\* more, the file label names the file whose presentation is on screen: the
\* file of the load_file that settled last.
C21_LabelMatchesPresentation ==
  (/\ last.turn \in {"load_file_resolved", "load_file_rejected"}
   /\ inflight = EmptyBag) =>
    /\ fileNameText.name = FileName(PathTable[last.req])
    /\ Presented(PathTable[last.req])

\* C22: the fallback of a failed toggle negates the value isPlaying has when
\* the failure is handled.  So a failure handled right after another
\* toggle's failure puts back the value from before that one (two
\* overlapping toggles that both fail leave isPlaying as it was), and a
\* failure handled right after another toggle's success inverts the value
\* the engine reported.
C22_FallbackNegatesCurrentValue ==
  [][last'.turn = "toggle_rejected" =>
       /\ isPlaying' = ~isPlaying
       /\ last.turn = "toggle_rejected" => isPlaying' = (last.pre = 1)
       /\ last.turn = "toggle_resolved" => isPlaying' = (last.reply = 0)]_vars

\* C22's case: two toggles were awaited together while nothing was playing,
\* both have failed, one right after the other, and isPlaying is FALSE as it
\* was before the first failure.
C22_Witness ==
  /\ last.turn = "toggle_rejected"
  /\ last.input = 1
  /\ last.pre = 1
  /\ ~isPlaying
  /\ inflight = EmptyBag
  /\ display["play-icon"] = "block"

\* C23: with an engine that echoes the level asked for, or fails, a click on
\* the volume button at a level v > 0 remembers v and asks for 0, a click at
\* level 0 asks for the remembered level, or for 0.8 when none is
\* remembered, and the completion of either makes volume the level asked
\* for: so muting gives 0 and the unmute after it gives exactly v again.  The
\* remembered level is never overwritten with anything but a level > 0.
C23_MuteRoundTrip ==
  [][/\ last'.turn = "mute" =>
          /\ BagIn(Call("set_volume", "volume-btn", last'.req), inflight')
          /\ volume > 0 => (lastVolume' = volume /\ last'.req = 0)
          /\ volume = 0 =>
               /\ lastVolume' = lastVolume
               /\ last'.req = IF lastVolume = Undefined
                                THEN DefaultVolume ELSE lastVolume
     /\ last'.turn \in {"mute_resolved", "mute_rejected"} =>
          volume' = last'.req
     /\ lastVolume' # lastVolume => lastVolume' > 0
    ]_vars

\* C23's case: the level was 0.35, the button muted it and a second click
\* has brought back 0.35, not the default 0.8: volume, the remembered level
\* and the slider all are at 35 and nothing is awaited.
C23_Witness ==
  /\ last.turn = "mute_resolved"
  /\ last.req = 35
  /\ volume = 35
  /\ lastVolume = 35
  /\ sliderValue = 35
  /\ inflight = EmptyBag

====
